---- MODULE Spec2Model ----
(***************************************************************************)
(* Model of gb-rs: the bus dispatcher (src/src/io/mod.rs, Interconnect)    *)
(* and the RAM wave audio channel (src/src/spu/ram_wave.rs, RamWave).      *)
(*                                                                         *)
(* A panic!() ends the calling task: it is modelled as a terminal state    *)
(* (`panicked`), after which no operation runs.                            *)
(***************************************************************************)
EXTENDS Integers, FiniteSets, Sequences, TLC

(***************************************************************************)
(* Program constants                                                       *)
(***************************************************************************)
\* 0x8000: first address past the ROM window (io/mod.rs:63)
ROM_END == 32768
\* 0x8000: base subtracted from a RAM address (io/mod.rs:66)
RAM_BASE == 32768
\* 0xe000: first address past the RAM window (io/mod.rs:65)
RAM_END == 57344
\* 0xff00: first address of the I/O window (io/mod.rs:67), also its base (io/mod.rs:71)
IO_BASE == 65280
\* 3 * 8 * 1024: size of the RAM handed to Ram::new (io/mod.rs:23)
RAM_SIZE == 24576
\* 0x100: number of I/O register cells (io/mod.rs:25)
IO_SIZE == 256
\* 0x44: offset of the LY register (io/mod.rs:95, io/mod.rs:108)
LY == 68
\* 0x800: first invalid divider (spu/ram_wave.rs:99), also the reload base (spu/ram_wave.rs:59)
DIVIDER_LIMIT == 2048
\* 0x4000: ticks per length unit (spu/ram_wave.rs:113)
LENGTH_UNIT == 16384
\* 0x100: length counter base (spu/ram_wave.rs:113)
LENGTH_BASE == 256
\* number of entries of the sample RAM (spu/ram_wave.rs:22)
NUM_SAMPLES == 32

(***************************************************************************)
(* Bounds of the model                                                     *)
(***************************************************************************)
\* the video subsystem's line counter is followed up to this line
MaxLine == 2
\* the wave channel is followed for this many calls of step()
MaxTicks == 3

\* u16 / u8 wrapping arithmetic
U16(x) == x % 65536
U8(x) == x % 256

(***************************************************************************)
(* Inputs                                                                  *)
(***************************************************************************)
\* every 16-bit address
AllAddrs == 0 .. 65535
\* the addresses the bus operations are called with: both ends of every
\* window, the LY register and its neighbour
Addrs == {0, 32767, 32768, 57343, 57344, 65279, 65280, 65348, 65349, 65535}
\* the bytes written
Vals == {0, 90, 255}
\* the cartridge images the dispatcher is constructed from: nonzero bytes by
\* offset, every other byte of the 32 KiB image being 0
Images == { (0 :> 49 @@ 32767 :> 195), (0 :> 255) }

VARIABLES
    rom,        \* Interconnect.rom: image contents (nonzero bytes by offset)
    ram,        \* Interconnect.ram: RAM contents (nonzero bytes by offset)
    io,         \* Interconnect.io: the 0x100 register cells
    gpu_line,   \* Interconnect.gpu: the line Gpu::get_line() returns
    panicked,   \* a bus call has panicked
    last,       \* the last bus call and what it returned
    image,      \* history: the image the dispatcher was constructed from
    written,    \* history: per I/O offset, the value of the last write_byte
                \* call to it since construction or reset (0 if none)
    probe       \* an address handed to get_peripheral and what came back

busvars == <<rom, ram, io, gpu_line, panicked, last, image, written, probe>>

VARIABLES
    running,       \* RamWave.running
    enabled,       \* RamWave.enabled
    remaining,     \* RamWave.remaining (u32; its values here stay far below 2^31)
    output_level,  \* RamWave.output_level
    divider,       \* RamWave.divider (u16)
    counter,       \* RamWave.counter (u16)
    mode,          \* RamWave.mode
    samples,       \* RamWave.samples: 32 entries, indexed from 0
    index,         \* RamWave.index (u8)
    wpanicked,     \* a call on the channel has panicked
    wlast,         \* the last call on the channel and what it returned
    ticks,         \* number of step() calls so far
    wrote          \* history: per table index, the value of the last
                   \* set_ram_sample call for it (0 if none)

wavevars == <<running, enabled, remaining, output_level, divider, counter,
              mode, samples, index, wpanicked, wlast, ticks, wrote>>

vars == <<busvars, wavevars>>

(***************************************************************************)
(* Byte stores.  A store is kept as its nonzero bytes by offset; every     *)
(* other byte of it is 0.                                                  *)
(***************************************************************************)
Cell(store, offset) == IF offset \in DOMAIN store THEN store[offset] ELSE 0

Store(store, offset, val) ==
    LET keep == IF val = 0 THEN DOMAIN store \ {offset} ELSE DOMAIN store \cup {offset}
    IN  [o \in keep |-> IF o = offset THEN val ELSE store[o]]

Empty == [o \in {} |-> 0]

\* what a peripheral's get_byte gives: a byte, or a panic
Got(val, diag) == [ok |-> TRUE, val |-> val, diag |-> diag]
GetPanic(diag) == [ok |-> FALSE, val |-> -1, diag |-> diag]

\* what a peripheral's set_byte leaves: the three stores, or a panic
Put(r, m, c, diag) == [ok |-> TRUE, rom |-> r, ram |-> m, io |-> c, diag |-> diag]
PutPanic(r, m, c, diag) == [ok |-> FALSE, rom |-> r, ram |-> m, io |-> c, diag |-> diag]

(***************************************************************************)
(* Peripherals                                                             *)
(***************************************************************************)
\* rom::Rom::get_byte: the image's byte at `offset`
RomGetByte(offset) ==
    IF offset < ROM_END THEN Got(Cell(rom, offset), "none") ELSE GetPanic("bounds")

\* ram::Ram::get_byte: the stored byte; indexing past the allocation panics
RamGetByte(offset) ==
    IF offset < RAM_SIZE THEN Got(Cell(ram, offset), "none") ELSE GetPanic("bounds")

\* ram::Ram::set_byte: store the byte; indexing past the allocation panics
RamSetByte(offset, val) ==
    IF offset < RAM_SIZE
    THEN Put(rom, Store(ram, offset, val), io, "none")
    ELSE PutPanic(rom, ram, io, "bounds")

\* ram::Ram::reset: every byte back to 0
RamReset == Empty

\* Gpu::get_line
GpuGetLine == gpu_line

\* Gpu::reset
GpuReset == 0

\* Gpu::step: one tick either stays on the line or moves to the next one
GpuStep == {gpu_line, gpu_line + 1}

\* a mutant: the rejected write lands in the image
DefaultSetByteStores(offset, val) == Put(Store(rom, offset, val), ram, io, "read-only")

\* Addressable::set_byte, the trait's default (used by the ROM): report, store nothing
DefaultSetByte(offset, val) == Put(rom, ram, io, "read-only")

\* a mutant: LY is read from its cell like any other register
IoGetByteNoLY(offset) ==
    IF offset < IO_SIZE THEN Got(io[offset], "unhandled-read") ELSE GetPanic("bounds")

\* <Interconnect as Addressable>::get_byte
IoGetByte(offset) ==
    IF offset = LY
    THEN Got(GpuGetLine, "none")
    ELSE IF offset < IO_SIZE
         THEN Got(io[offset], "unhandled-read")
         ELSE GetPanic("bounds")

\* a mutant: a write to LY is stored like any other register
IoSetByteNoLY(offset, val) ==
    IF offset < IO_SIZE
    THEN Put(rom, ram, [io EXCEPT ![offset] = val], "unhandled-write")
    ELSE PutPanic(rom, ram, io, "bounds")

\* a mutant: a write to LY is reported and dropped
IoSetByteDropsLY(offset, val) ==
    IF offset = LY
    THEN Put(rom, ram, io, "read-only")
    ELSE IF offset < IO_SIZE
         THEN Put(rom, ram, [io EXCEPT ![offset] = val], "unhandled-write")
         ELSE PutPanic(rom, ram, io, "bounds")

\* a mutant: the cell index loses its top bit
IoSetByteAliased(offset, val) ==
    IF offset = LY
    THEN PutPanic(rom, ram, io, "ly-write")
    ELSE IF offset < IO_SIZE
         THEN Put(rom, ram, [io EXCEPT ![offset % 128] = val], "unhandled-write")
         ELSE PutPanic(rom, ram, io, "bounds")

\* <Interconnect as Addressable>::set_byte
IoSetByte(offset, val) ==
    IF offset = LY
    THEN PutPanic(rom, ram, io, "ly-write")
    ELSE IF offset < IO_SIZE
         THEN Put(rom, ram, [io EXCEPT ![offset] = val], "unhandled-write")
         ELSE PutPanic(rom, ram, io, "bounds")

\* <Unmapped as Addressable>::get_byte
UnmappedGetByte(offset) == GetPanic("unmapped")

\* a mutant: the sentinel's write falls back to the trait's default
UnmappedSetByteDefault(offset, val) == Put(rom, ram, io, "read-only")

\* <Unmapped as Addressable>::set_byte
UnmappedSetByte(offset, val) == PutPanic(rom, ram, io, "unmapped")

(***************************************************************************)
(* Interconnect                                                            *)
(***************************************************************************)
\* a mutant: the ROM window's bound is off by one
get_peripheral_offbyone(addr) ==
    IF addr <= ROM_END THEN <<"rom", U16(addr - 0)>>
    ELSE IF addr < RAM_END THEN <<"ram", U16(addr - RAM_BASE)>>
    ELSE IF addr < IO_BASE THEN <<"unmapped", addr>>
    ELSE <<"io", U16(addr - IO_BASE)>>

\* a mutant: the RAM window's base is not subtracted
get_peripheral_nobase(addr) ==
    IF addr < ROM_END THEN <<"rom", U16(addr - 0)>>
    ELSE IF addr < RAM_END THEN <<"ram", addr>>
    ELSE IF addr < IO_BASE THEN <<"unmapped", addr>>
    ELSE <<"io", U16(addr - IO_BASE)>>

\* Interconnect::get_peripheral: the peripheral mapped at `addr` and the
\* offset within it
get_peripheral(addr) ==
    IF addr < ROM_END THEN <<"rom", U16(addr - 0)>>
    ELSE IF addr < RAM_END THEN <<"ram", U16(addr - RAM_BASE)>>
    ELSE IF addr < IO_BASE THEN <<"unmapped", addr>>
    ELSE <<"io", U16(addr - IO_BASE)>>

\* periph.get_byte(offset): the dispatch on the trait object
PeriphGetByte(periph, offset) ==
    CASE periph = "rom" -> RomGetByte(offset)
      [] periph = "ram" -> RamGetByte(offset)
      [] periph = "unmapped" -> UnmappedGetByte(offset)
      [] periph = "io" -> IoGetByte(offset)

\* periph.set_byte(offset, val): the dispatch on the trait object
PeriphSetByte(periph, offset, val) ==
    CASE periph = "rom" -> DefaultSetByte(offset, val)
      [] periph = "ram" -> RamSetByte(offset, val)
      [] periph = "unmapped" -> UnmappedSetByte(offset, val)
      [] periph = "io" -> IoSetByte(offset, val)

\* Interconnect::get_byte
get_byte(addr) ==
    LET p == get_peripheral(addr) IN PeriphGetByte(p[1], p[2])

\* Interconnect::set_byte
set_byte(addr, val) ==
    LET p == get_peripheral(addr) IN PeriphSetByte(p[1], p[2], val)

Call(op, addr, val, ret, diag) ==
    [op |-> op, addr |-> addr, val |-> val, ret |-> ret, diag |-> diag]

\* the I/O offset of a call's address, if it is a register other than LY
IsPlainIo(addr) == addr >= 65280 /\ addr <= 65535 /\ addr # 65348

(***************************************************************************)
(* Construction and operations of the dispatcher                           *)
(***************************************************************************)
\* Interconnect::new(rom)
BusInit ==
    /\ rom \in Images
    /\ image = rom
    /\ ram = Empty
    /\ io = [o \in 0 .. IO_SIZE - 1 |-> 0]
    /\ gpu_line = 0
    /\ panicked = FALSE
    /\ last = Call("new", 0, 0, -1, "none")
    /\ written = Empty
    /\ probe = [addr |-> 0, periph |-> "none", offset |-> 0]

\* read_byte(addr)
ReadByte ==
    \E addr \in Addrs :
        LET r == get_byte(addr) IN
        /\ ~panicked
        /\ panicked' = ~r.ok
        /\ last' = Call("read", addr, 0, r.val, r.diag)
        /\ UNCHANGED <<rom, ram, io, gpu_line, image, written, probe>>
        /\ UNCHANGED wavevars

\* write_byte(addr, val)
WriteByte ==
    \E addr \in Addrs, val \in Vals :
        LET r == set_byte(addr, val) IN
        /\ ~panicked
        /\ panicked' = ~r.ok
        /\ rom' = r.rom
        /\ ram' = r.ram
        /\ io' = r.io
        /\ last' = Call("write", addr, val, -1, r.diag)
        /\ written' = IF IsPlainIo(addr)
                      THEN Store(written, addr - 65280, val)
                      ELSE written
        /\ UNCHANGED <<gpu_line, image, probe>>
        /\ UNCHANGED wavevars

\* a mutant: the register cells survive a reset
ResetKeepsIo ==
    /\ ~panicked
    /\ ram' = RamReset
    /\ gpu_line' = GpuReset
    /\ io' = io
    /\ last' = Call("reset", 0, 0, -1, "none")
    /\ written' = Empty
    /\ UNCHANGED <<rom, panicked, image, probe>>
    /\ UNCHANGED wavevars

\* Interconnect::reset
Reset ==
    /\ ~panicked
    /\ ram' = RamReset
    /\ gpu_line' = GpuReset
    /\ io' = [o \in DOMAIN io |-> 0]
    /\ last' = Call("reset", 0, 0, -1, "none")
    /\ written' = Empty
    /\ UNCHANGED <<rom, panicked, image, probe>>
    /\ UNCHANGED wavevars

\* Interconnect::step
Step ==
    /\ ~panicked
    /\ gpu_line < MaxLine
    /\ gpu_line' \in GpuStep
    /\ last' = Call("step", 0, 0, -1, "none")
    /\ UNCHANGED <<rom, ram, io, panicked, image, written, probe>>
    /\ UNCHANGED wavevars

BusNext == ReadByte \/ WriteByte \/ Reset \/ Step

\* get_peripheral applied to the address under decode
Decode ==
    LET p == get_peripheral(probe.addr) IN
    /\ probe.periph = "none"
    /\ probe' = [addr |-> probe.addr, periph |-> p[1], offset |-> p[2]]
    /\ UNCHANGED <<rom, ram, io, gpu_line, panicked, last, image, written>>
    /\ UNCHANGED wavevars

(***************************************************************************)
(* RamWave: audio channel 3                                                *)
(***************************************************************************)

\* the arguments the channel's operations are called with
DividerArgs == {0, 2047, 2048, 65535}
LengthArgs == {0, 255}
IndexArgs == {0, 31, 32}
SampleArgs == {0, 12}
Modes == {"Continuous", "Counter"}
OutputLevels == {"Mute", "Full", "Halved", "Quartered"}

WCall(op, arg, ret) == [op |-> op, arg |-> arg, ret |-> ret]

\* OutputLevel::from_field
from_field(field) ==
    CASE field = 0 -> "Mute"
      [] field = 1 -> "Full"
      [] field = 2 -> "Halved"
      [] field = 3 -> "Quartered"

\* a mutant: the two divisors are swapped
process_swapped(level, sample) ==
    CASE level = "Mute" -> 0
      [] level = "Full" -> sample
      [] level = "Halved" -> sample \div 4
      [] level = "Quartered" -> sample \div 2

\* OutputLevel::process
process(level, sample) ==
    CASE level = "Mute" -> 0
      [] level = "Full" -> sample
      [] level = "Halved" -> sample \div 2
      [] level = "Quartered" -> sample \div 4

\* RamWave::new
WaveInit ==
    /\ running = FALSE
    /\ enabled = FALSE
    /\ remaining = 0
    /\ output_level = from_field(0)
    /\ divider = 0
    /\ counter = 0
    /\ mode = "Continuous"
    /\ samples = [i \in 0 .. NUM_SAMPLES - 1 |-> 0]
    /\ index = 0
    /\ wpanicked = FALSE
    /\ wlast = WCall("new", 0, -1)
    /\ ticks = 0
    /\ wrote = [i \in 0 .. NUM_SAMPLES - 1 |-> 0]

\* a mutant: the sample index is not wrapped
StepPeriodNoWrap ==
    LET reloaded == IF counter = 0 THEN U16(2 * U16(DIVIDER_LIMIT - divider)) ELSE counter
    IN  /\ index' = IF counter = 0 THEN U8(index + 1) ELSE index
        /\ counter' = U16(reloaded - 1)

\* a mutant: the reload value is not doubled
StepPeriodNoDouble ==
    LET reloaded == IF counter = 0 THEN U16(DIVIDER_LIMIT - divider) ELSE counter
    IN  /\ index' = IF counter = 0 THEN U8(index + 1) % NUM_SAMPLES ELSE index
        /\ counter' = U16(reloaded - 1)

\* a mutant: the period counter is counted down before it is tested
StepPeriodCountsFirst ==
    LET counted == U16(counter - 1)
    IN  /\ index' = IF counted = 0 THEN U8(index + 1) % NUM_SAMPLES ELSE index
        /\ counter' = IF counted = 0 THEN U16(2 * U16(DIVIDER_LIMIT - divider)) ELSE counted

\* RamWave::step, the period counter's part: reload and move on to the next
\* sample when the counter is 0, then count down
StepPeriod ==
    LET reloaded == IF counter = 0 THEN U16(2 * U16(DIVIDER_LIMIT - divider)) ELSE counter
    IN  /\ index' = IF counter = 0 THEN U8(index + 1) % NUM_SAMPLES ELSE index
        /\ counter' = U16(reloaded - 1)

\* a mutant: the length budget is counted down before it is tested
step_stops_early ==
    /\ ~wpanicked
    /\ ticks' = ticks + 1
    /\ wlast' = WCall("step", 0, -1)
    /\ IF ~running
       THEN UNCHANGED <<running, remaining, counter, index>>
       ELSE IF mode = "Counter" /\ remaining <= 1
            THEN running' = FALSE /\ remaining' = 0 /\ UNCHANGED <<counter, index>>
            ELSE /\ remaining' = IF mode = "Counter" THEN remaining - 1 ELSE remaining
                 /\ StepPeriod
                 /\ UNCHANGED running
    /\ UNCHANGED <<enabled, output_level, divider, mode, samples, wrote, wpanicked>>
    /\ UNCHANGED busvars

\* a mutant: a stopped channel is stepped like a running one
step_ignores_running ==
    /\ ~wpanicked
    /\ ticks' = ticks + 1
    /\ wlast' = WCall("step", 0, -1)
    /\ IF mode = "Counter" /\ remaining = 0
       THEN running' = FALSE /\ UNCHANGED <<remaining, counter, index>>
       ELSE /\ remaining' = IF mode = "Counter" THEN remaining - 1 ELSE remaining
            /\ StepPeriod
            /\ UNCHANGED running
    /\ UNCHANGED <<enabled, output_level, divider, mode, samples, wrote, wpanicked>>
    /\ UNCHANGED busvars

\* RamWave::step
step ==
    /\ ~wpanicked
    /\ ticks' = ticks + 1
    /\ wlast' = WCall("step", 0, -1)
    /\ IF ~running
       THEN UNCHANGED <<running, remaining, counter, index>>
       ELSE IF mode = "Counter" /\ remaining = 0
            THEN running' = FALSE /\ UNCHANGED <<remaining, counter, index>>
            ELSE /\ remaining' = IF mode = "Counter" THEN remaining - 1 ELSE remaining
                 /\ StepPeriod
                 /\ UNCHANGED running
    /\ UNCHANGED <<enabled, output_level, divider, mode, samples, wrote, wpanicked>>
    /\ UNCHANGED busvars

\* RamWave::step, called at most MaxTicks times
WaveStep == ticks < MaxTicks /\ step

\* RamWave::ram_sample as a value: the entry, or -1 where the index is out
\* of the table (the indexing panics)
RamSampleAt(i) == IF i < NUM_SAMPLES THEN samples[i] ELSE -1

\* a mutant: silence only when the channel is neither running nor enabled
SampleValueAnd ==
    IF ~running /\ ~enabled THEN 0 ELSE process(output_level, RamSampleAt(index))

\* RamWave::sample as a value
SampleValue ==
    IF ~running \/ ~enabled THEN 0 ELSE process(output_level, RamSampleAt(index))

\* RamWave::sample
WaveSample ==
    /\ ~wpanicked
    /\ wlast' = WCall("sample", 0, SampleValue)
    /\ UNCHANGED <<running, enabled, remaining, output_level, divider, counter,
                   mode, samples, wrote, index, wpanicked, ticks>>
    /\ UNCHANGED busvars

\* RamWave::ram_sample
ram_sample(i) ==
    /\ ~wpanicked
    /\ wpanicked' = ~(i < NUM_SAMPLES)
    /\ wlast' = WCall("ram_sample", i, RamSampleAt(i))
    /\ UNCHANGED <<running, enabled, remaining, output_level, divider, counter,
                   mode, samples, wrote, index, ticks>>
    /\ UNCHANGED busvars

WaveRamSample == \E i \in IndexArgs : ram_sample(i)

\* a mutant: the table index loses its top bit
set_ram_sample_aliased(i, s) ==
    /\ ~wpanicked
    /\ wpanicked' = ~(i < NUM_SAMPLES)
    /\ samples' = IF i < NUM_SAMPLES THEN [samples EXCEPT ![i % 16] = s] ELSE samples
    /\ wrote' = IF i < NUM_SAMPLES THEN [wrote EXCEPT ![i] = s] ELSE wrote
    /\ wlast' = WCall("set_ram_sample", <<i, s>>, -1)
    /\ UNCHANGED <<running, enabled, remaining, output_level, divider, counter,
                   mode, index, ticks>>
    /\ UNCHANGED busvars

\* RamWave::set_ram_sample
set_ram_sample(i, s) ==
    /\ ~wpanicked
    /\ wpanicked' = ~(i < NUM_SAMPLES)
    /\ samples' = IF i < NUM_SAMPLES THEN [samples EXCEPT ![i] = s] ELSE samples
    /\ wrote' = IF i < NUM_SAMPLES THEN [wrote EXCEPT ![i] = s] ELSE wrote
    /\ wlast' = WCall("set_ram_sample", <<i, s>>, -1)
    /\ UNCHANGED <<running, enabled, remaining, output_level, divider, counter,
                   mode, index, ticks>>
    /\ UNCHANGED busvars

WaveSetRamSample == \E i \in IndexArgs, s \in SampleArgs : set_ram_sample(i, s)

\* a mutant: starting the channel opens its output gate too
WaveStartEnables ==
    /\ ~wpanicked
    /\ running' = TRUE
    /\ enabled' = TRUE
    /\ wlast' = WCall("start", 0, -1)
    /\ UNCHANGED <<remaining, output_level, divider, counter, mode,
                   samples, wrote, index, wpanicked, ticks>>
    /\ UNCHANGED busvars

\* a mutant: starting the channel gives it a new length budget
WaveStartRearms ==
    /\ ~wpanicked
    /\ running' = TRUE
    /\ remaining' = LENGTH_UNIT
    /\ wlast' = WCall("start", 0, -1)
    /\ UNCHANGED <<enabled, output_level, divider, counter, mode,
                   samples, wrote, index, wpanicked, ticks>>
    /\ UNCHANGED busvars

\* RamWave::start
WaveStart ==
    /\ ~wpanicked
    /\ running' = TRUE
    /\ wlast' = WCall("start", 0, -1)
    /\ UNCHANGED <<enabled, remaining, output_level, divider, counter, mode,
                   samples, wrote, index, wpanicked, ticks>>
    /\ UNCHANGED busvars

\* RamWave::divider
WaveDivider ==
    /\ ~wpanicked
    /\ wlast' = WCall("divider", 0, divider)
    /\ UNCHANGED <<running, enabled, remaining, output_level, divider, counter,
                   mode, samples, wrote, index, wpanicked, ticks>>
    /\ UNCHANGED busvars

\* a mutant: the range check lets 0x800 through
set_divider_gt(v) ==
    /\ ~wpanicked
    /\ wpanicked' = (v > DIVIDER_LIMIT)
    /\ divider' = IF v > DIVIDER_LIMIT THEN divider ELSE v
    /\ wlast' = WCall("set_divider", v, -1)
    /\ UNCHANGED <<running, enabled, remaining, output_level, counter, mode,
                   samples, wrote, index, ticks>>
    /\ UNCHANGED busvars

\* RamWave::set_divider
set_divider(v) ==
    /\ ~wpanicked
    /\ wpanicked' = (v >= DIVIDER_LIMIT)
    /\ divider' = IF v >= DIVIDER_LIMIT THEN divider ELSE v
    /\ wlast' = WCall("set_divider", v, -1)
    /\ UNCHANGED <<running, enabled, remaining, output_level, counter, mode,
                   samples, wrote, index, ticks>>
    /\ UNCHANGED busvars

WaveSetDivider == \E v \in DividerArgs : set_divider(v)

\* RamWave::set_mode
set_mode(m) ==
    /\ ~wpanicked
    /\ mode' = m
    /\ wlast' = WCall("set_mode", m, -1)
    /\ UNCHANGED <<running, enabled, remaining, output_level, divider, counter,
                   samples, wrote, index, wpanicked, ticks>>
    /\ UNCHANGED busvars

WaveSetMode == \E m \in Modes : set_mode(m)

\* a mutant: the subtraction is done in 8 bits, before the widening
set_length_u8(len) ==
    /\ ~wpanicked
    /\ remaining' = U8(LENGTH_BASE - len) * LENGTH_UNIT
    /\ wlast' = WCall("set_length", len, -1)
    /\ UNCHANGED <<running, enabled, output_level, divider, counter, mode,
                   samples, wrote, index, wpanicked, ticks>>
    /\ UNCHANGED busvars

\* RamWave::set_length
set_length(len) ==
    /\ ~wpanicked
    /\ remaining' = (LENGTH_BASE - len) * LENGTH_UNIT
    /\ wlast' = WCall("set_length", len, -1)
    /\ UNCHANGED <<running, enabled, output_level, divider, counter, mode,
                   samples, wrote, index, wpanicked, ticks>>
    /\ UNCHANGED busvars

WaveSetLength == \E len \in LengthArgs : set_length(len)

\* a mutant: closing the output gate clears the sample RAM
set_enabled_clears(b) ==
    /\ ~wpanicked
    /\ enabled' = b
    /\ samples' = IF b THEN samples ELSE [i \in 0 .. NUM_SAMPLES - 1 |-> 0]
    /\ wlast' = WCall("set_enabled", b, -1)
    /\ UNCHANGED <<running, remaining, output_level, divider, counter, mode,
                   wrote, index, wpanicked, ticks>>
    /\ UNCHANGED busvars

\* RamWave::set_enabled
set_enabled(b) ==
    /\ ~wpanicked
    /\ enabled' = b
    /\ wlast' = WCall("set_enabled", b, -1)
    /\ UNCHANGED <<running, remaining, output_level, divider, counter, mode,
                   samples, wrote, index, wpanicked, ticks>>
    /\ UNCHANGED busvars

WaveSetEnabled == \E b \in BOOLEAN : set_enabled(b)

\* RamWave::set_output_level
set_output_level(level) ==
    /\ ~wpanicked
    /\ output_level' = level
    /\ wlast' = WCall("set_output_level", level, -1)
    /\ UNCHANGED <<running, enabled, remaining, divider, counter, mode,
                   samples, wrote, index, wpanicked, ticks>>
    /\ UNCHANGED busvars

WaveSetOutputLevel == \E level \in OutputLevels : set_output_level(level)

WaveNext ==
    \/ WaveStep
    \/ WaveSample
    \/ WaveRamSample
    \/ WaveSetRamSample
    \/ WaveStart
    \/ WaveDivider
    \/ WaveSetDivider
    \/ WaveSetMode
    \/ WaveSetLength
    \/ WaveSetEnabled
    \/ WaveSetOutputLevel

(***************************************************************************)
(* Specifications                                                          *)
(***************************************************************************)
\* the dispatcher, driven by any sequence of its four operations
Init == BusInit /\ WaveInit
Next == BusNext
Spec == Init /\ [][Next]_vars

\* the wave channel, driven by any sequence of its operations
WaveSpecInit == Init /\ rom = (0 :> 255)
WaveSpec == WaveSpecInit /\ [][WaveNext]_vars

\* get_peripheral alone, applied to each of the 65536 addresses
DecodeInit ==
    /\ rom = (0 :> 255)
    /\ image = rom
    /\ ram = Empty
    /\ io = [o \in 0 .. IO_SIZE - 1 |-> 0]
    /\ gpu_line = 0
    /\ panicked = FALSE
    /\ last = Call("new", 0, 0, -1, "none")
    /\ written = Empty
    /\ probe \in [addr : AllAddrs, periph : {"none"}, offset : {0}]
    /\ WaveInit
DecodeSpec == DecodeInit /\ [][Decode]_vars

\* set_length over every 8-bit length, on a channel that may be started
AllLengths == 0 .. 255
LengthSetLength == \E len \in AllLengths : set_length(len)
LengthNext == LengthSetLength \/ WaveStart
LengthSpec == WaveSpecInit /\ [][LengthNext]_vars

\* a long run: the channel is configured and started before its first
\* step() and then only stepped, past the end of the shortest length budget
RunTicks == LENGTH_UNIT + MaxTicks
RunDividers == {0, 2046, 2047}
RunSetMode == ticks = 0 /\ \E m \in Modes : set_mode(m)
RunSetLength == ticks = 0 /\ set_length(255)
RunSetDivider == ticks = 0 /\ \E v \in RunDividers : set_divider(v)
RunStart == ticks = 0 /\ WaveStart
RunStep == (running \/ ticks > 0) /\ ticks < RunTicks /\ step
RunNext == RunSetMode \/ RunSetLength \/ RunSetDivider \/ RunStart \/ RunStep
RunSpec == WaveSpecInit /\ [][RunNext]_vars

\* a run as in RunSpec that goes on after the channel has stopped: the stopped
\* channel is started again, with or without a new length or mode, once the
\* run is long enough to have used up a length budget
RestartStart == ticks > LENGTH_UNIT /\ ~running /\ WaveStart
RestartSetLength == ticks > LENGTH_UNIT /\ ~running /\ set_length(255)
RestartSetMode == ticks > LENGTH_UNIT /\ ~running /\ \E m \in Modes : set_mode(m)
RestartNext ==
    \/ RunSetMode
    \/ RunSetLength
    \/ RunSetDivider
    \/ RunStart
    \/ RunStep
    \/ RestartStart
    \/ RestartSetLength
    \/ RestartSetMode
RestartSpec == WaveSpecInit /\ [][RestartNext]_vars

\* the output path: entry 1 of the table takes every 4-bit amplitude, and the
\* channel is started, gated, stepped onto entry 1 and sampled at each level
AllSamples == 0 .. 15
OutputSetRamSample == \E s \in AllSamples : set_ram_sample(1, s)
OutputNext ==
    \/ OutputSetRamSample
    \/ WaveSetOutputLevel
    \/ WaveSetEnabled
    \/ WaveStart
    \/ WaveStep
    \/ WaveSample
OutputSpec == WaveSpecInit /\ [][OutputNext]_vars

\* the sample table alone: every index, one past the end included, is written
\* and read back; MaxFilled caps how many entries are nonzero at once
MaxFilled == 1
AllIndexes == 0 .. NUM_SAMPLES
Filled(t) == Cardinality({j \in 0 .. NUM_SAMPLES - 1 : t[j] # 0})
TableSetRamSample ==
    \E i \in AllIndexes, s \in SampleArgs :
        /\ i < NUM_SAMPLES => Filled([samples EXCEPT ![i] = s]) <= MaxFilled
        /\ set_ram_sample(i, s)
TableRamSample == \E i \in AllIndexes : ram_sample(i)
TableNext == TableSetRamSample \/ TableRamSample
TableSpec == WaveSpecInit /\ [][TableNext]_vars

(***************************************************************************)
(* Claims                                                                  *)
(***************************************************************************)
\* the addresses of the RAM window that a state tells apart: the ones the
\* operations are called with and every one holding a nonzero byte
RamProbes == {a \in Addrs : a >= 32768 /\ a <= 57343} \cup {32768 + o : o \in DOMAIN ram}

\* likewise for the ROM window: every other byte is 0 in `rom` and in `image`
RomProbes == {a \in Addrs : a <= 32767} \cup DOMAIN rom \cup DOMAIN image

\* C1: every 16-bit address decodes to exactly one target, by the first range
\* that matches: below 0x8000 the image store at offset addr; below 0xE000 the
\* read/write store at addr - 0x8000, which lies in 0..0x5FFF; below 0xFF00
\* the unmapped sentinel; from 0xFF00 on the dispatcher's own I/O handling at
\* addr - 0xFF00, which lies in 0..255.
C1_DecodePartition ==
    probe.periph # "none" =>
        LET a == probe.addr IN
        /\ probe.periph \in {"rom", "ram", "unmapped", "io"}
        /\ (probe.periph = "rom") = (a >= 0 /\ a <= 32767)
        /\ (probe.periph = "ram") = (a >= 32768 /\ a <= 57343)
        /\ (probe.periph = "unmapped") = (a >= 57344 /\ a <= 65279)
        /\ (probe.periph = "io") = (a >= 65280 /\ a <= 65535)
        /\ (probe.periph = "rom" => probe.offset = a)
        /\ (probe.periph = "ram" =>
                probe.offset = a - 32768 /\ probe.offset \in 0 .. 24575)
        /\ (probe.periph = "io" =>
                probe.offset = a - 65280 /\ probe.offset \in 0 .. 255)

C1_Witness ==
    probe.addr = 57343 /\ probe.periph = "ram" /\ probe.offset = 24575

\* C2: a write_byte to an address of 0x8000..0xDFFF returns, and a read_byte
\* of the same address right after it returns the byte written.
C2_RamWriteThenRead ==
    [][ /\ (last'.op = "write" /\ last'.addr >= 32768 /\ last'.addr <= 57343)
            => ~panicked'
        /\ ( /\ last.op = "write" /\ last.addr >= 32768 /\ last.addr <= 57343
             /\ last'.op = "read" /\ last'.addr = last.addr )
            => (~panicked' /\ last'.ret = last.val) ]_vars

C2_Witness ==
    last.op = "read" /\ last.addr = 57343 /\ last.ret = 255 /\ ~panicked

\* C3: a write_byte to an address of 0x0000..0x7FFF returns normally and
\* changes nothing, and in every state a read_byte of any such address gives
\* the byte of the image the dispatcher was constructed from.
C3_RomWriteDiscarded ==
    /\ [](~panicked =>
            \A a \in RomProbes : get_byte(a) = Got(Cell(image, a), "none"))
    /\ [][ (last'.op = "write" /\ last'.addr <= 32767) =>
            /\ ~panicked'
            /\ last'.diag = "read-only"
            /\ UNCHANGED <<rom, ram, io, gpu_line>> ]_vars

C3_Witness ==
    /\ last.op = "write" /\ last.addr = 32767 /\ last.val = 90
    /\ ~panicked
    /\ get_byte(32767).val = 195

\* C4: a read_byte or write_byte of an address of 0xE000..0xFEFF panics, and
\* leaves the image store, the read/write store and the registers as they were.
C4_UnmappedFatal ==
    [][ (last'.op \in {"read", "write"} /\ last'.addr >= 57344 /\ last'.addr <= 65279)
            => (panicked' /\ UNCHANGED <<rom, ram, io, gpu_line>>) ]_vars

C4_Witness ==
    panicked /\ last.op = "write" /\ last.addr = 57344 /\ DOMAIN ram # {}

\* C5: in every state read_byte(0xFF44) returns the video subsystem's current
\* line, not the register cell at offset 0x44.
C5_LYReadsLine ==
    ~panicked => (get_byte(65348).ok /\ get_byte(65348).val = gpu_line)

C5_Witness ==
    last.op = "read" /\ last.addr = 65348 /\ last.ret = 2 /\ io[68] # 2

\* C6: write_byte(0xFF44, v) panics and leaves the cell at offset 0x44 as it was.
C6_LYWriteFatal ==
    [][ (last'.op = "write" /\ last'.addr = 65348) =>
            (panicked' /\ io'[68] = io[68]) ]_vars

C6_Witness ==
    panicked /\ last.op = "write" /\ last.addr = 65348 /\ last.val = 255

\* C7 as stated: write_byte(0xFF44, v) is reported, drops the value and
\* returns to its caller without aborting, like a write to the image store.
C7_LYWriteRecoverable ==
    (last.op = "write" /\ last.addr = 65348) => ~panicked

\* C7 as amended: write_byte(0xFF44, v) aborts like a write to the unmapped
\* range, and unlike a write to the image store, which returns; the value is
\* dropped, the cell at offset 0x44 staying 0.
C7_LYWriteAborts ==
    /\ io[68] = 0
    /\ last.op = "write" =>
          /\ (last.addr = 65348 => panicked /\ last.diag = "ly-write")
          /\ (last.addr >= 57344 /\ last.addr <= 65279 => panicked)
          /\ (last.addr <= 32767 => ~panicked /\ last.diag = "read-only")

C7_Witness ==
    panicked /\ last.op = "write" /\ last.addr = 65348 /\ last.val = 90
        /\ last.diag = "ly-write"

\* C8: for every I/O offset o other than 0x44, read_byte(0xFF00 + o) returns
\* the value of the last write_byte to that address since construction or the
\* last reset, 0 if there was none, whatever was written anywhere else.
C8_IoCellsIndependent ==
    ~panicked =>
        \A o \in 0 .. 255 :
            o # 68 => get_byte(65280 + o) = Got(Cell(written, o), "unhandled-read")

C8_Witness ==
    /\ last.op = "read" /\ last.addr = 65535 /\ last.ret = 90
    /\ Cell(written, 0) = 255 /\ Cell(written, 69) = 0

\* C9: right after reset() a read_byte gives 0 at every address of
\* 0x8000..0xDFFF and at every I/O address but 0xFF44, the video subsystem is
\* reset, and the image store holds what it held.
C9_ResetZeroes ==
    /\ [](last.op = "reset" =>
            /\ \A a \in RamProbes : get_byte(a) = Got(0, "none")
            /\ \A o \in 0 .. 255 :
                  o # 68 => get_byte(65280 + o) = Got(0, "unhandled-read")
            /\ gpu_line = GpuReset
            /\ get_byte(65348) = Got(0, "none"))
    /\ [][ last'.op = "reset" => (rom' = rom /\ ~panicked') ]_vars

C9_Witness ==
    last.op = "reset" /\ DOMAIN ram = {} /\ gpu_line = 0 /\ io[255] = 0 /\ rom = image

\* C10: set_divider(v) returns and stores v for v in 0..0x7FF, panics and
\* leaves the divider as it was for v >= 0x800; the divider is at most 0x7FF
\* in every state.
C10_DividerRange ==
    /\ [](divider >= 0 /\ divider <= 2047)
    /\ [][ wlast'.op = "set_divider" =>
            IF wlast'.arg <= 2047
            THEN ~wpanicked' /\ divider' = wlast'.arg
            ELSE wpanicked' /\ divider' = divider ]_vars

C10_Witness ==
    wlast.op = "set_divider" /\ wlast.arg = 2047 /\ divider = 2047 /\ ~wpanicked

\* C11: for every 8-bit len, set_length(len) leaves remaining at exactly
\* (256 - len) * 0x4000, a value of 1 * 0x4000 .. 256 * 0x4000 that fits the
\* 32-bit field; remaining is never 0 right after set_length.
C11_SetLengthExact ==
    wlast.op = "set_length" =>
        /\ wlast.arg \in 0 .. 255
        /\ remaining = (256 - wlast.arg) * 16384
        /\ remaining >= 16384 /\ remaining <= 4194304
        /\ (wlast.arg = 0 => remaining = 4194304)
        /\ (wlast.arg = 255 => remaining = 16384)

C11_Witness ==
    wlast.op = "set_length" /\ wlast.arg = 0 /\ remaining = 4194304 /\ running

\* C12: in Counter mode a running channel with remaining = N > 0 keeps
\* running over its next N calls of step(), each taking one off remaining;
\* the call that finds remaining = 0 stops it and leaves counter and index
\* as they were.  Started with N = 0x4000 it stops on call N + 1.
C12_CounterBudget ==
    /\ []((mode = "Counter" /\ running /\ ticks >= 1) => remaining + ticks = 16384)
    /\ []((mode = "Counter" /\ ~running /\ ticks >= 1) => remaining = 0)
    /\ [][ (wlast'.op = "step" /\ running /\ mode = "Counter") =>
              IF remaining > 0
              THEN running' /\ remaining' = remaining - 1
              ELSE /\ ~running'
                   /\ remaining' = 0
                   /\ counter' = counter
                   /\ index' = index
                   /\ ticks' \in {1, 16384 + 1} ]_vars

C12_Witness ==
    /\ mode = "Counter" /\ ~running /\ remaining = 0
    /\ ticks = 16385 /\ divider = 0 /\ index = 4 /\ counter = 0

\* C17: a step() that is not cut short reloads the counter to
\* 2 * (0x800 - divider) - 1 and moves index to (index + 1) mod 32 when the
\* counter was 0, and otherwise takes one off the counter and leaves index;
\* index stays in 0..31 and wraps from 31 to 0.
C17_StepPeriodExact ==
    /\ [](index \in 0 .. 31)
    /\ [][ (wlast'.op = "step" /\ running /\ (mode = "Continuous" \/ remaining > 0)) =>
              IF counter = 0
              THEN /\ index' = (index + 1) % 32
                   /\ counter' = 2 * (2048 - divider) - 1
                   /\ (index = 31 => index' = 0)
              ELSE counter' = counter - 1 /\ index' = index ]_vars

C17_Witness ==
    running /\ divider = 2047 /\ ticks = 63 /\ index = 0 /\ counter = 1

\* C18: a running channel in Continuous mode, stepped from counter = 0 with
\* the divider d left alone, reloads on its 1st step and then every
\* 2 * (0x800 - d) steps; index moves by one on each reload and on no other
\* step, and is back at its starting value after 32 reloads.
C18_ReloadCadence ==
    /\ []((mode = "Continuous" /\ running /\ ticks >= 1) =>
            LET period == 2 * (2048 - divider) IN
            /\ index = (((ticks - 1) \div period) + 1) % 32
            /\ counter = period - 1 - ((ticks - 1) % period)
            /\ (ticks = 31 * period + 1 => index = 0))
    /\ [][ (mode = "Continuous" /\ index' # index) =>
              (wlast'.op = "step" /\ counter = 0 /\ index' = (index + 1) % 32) ]_vars

C18_Witness ==
    mode = "Continuous" /\ running /\ divider = 2046 /\ ticks = 125 /\ index = 0
        /\ counter = 3

\* C13: sample() returns 0 whenever the channel is not enabled or not
\* running, whatever the sample table, the index and the output level are.
C13_SilentUnlessRunningAndEnabled ==
    /\ (wlast.op = "sample" /\ (~enabled \/ ~running)) => wlast.ret = 0
    /\ (~wpanicked /\ (~enabled \/ ~running)) => SampleValue = 0

C13_Witness ==
    /\ wlast.op = "sample" /\ wlast.ret = 0
    /\ running /\ ~enabled
    /\ samples[index] = 12 /\ output_level = "Full"

\* C16: start() sets running and leaves enabled and every other field as it
\* was; a channel started while not enabled is running, and its sample()
\* stays 0 for as long as it is not enabled.
C16_StartOnlyRuns ==
    /\ []((running /\ ~enabled /\ ~wpanicked) => SampleValue = 0)
    /\ [][ wlast'.op = "start" =>
              /\ running'
              /\ UNCHANGED <<enabled, remaining, divider, counter, mode,
                             output_level, samples, index, wpanicked>> ]_vars

C16_Witness ==
    /\ wlast.op = "start" /\ running /\ ~enabled
    /\ samples[index] = 12 /\ output_level = "Full" /\ SampleValue = 0

\* C19: step() on a channel that is not running changes no field of it, in
\* either mode and whatever remaining and counter are.
C19_StoppedStepNoOp ==
    [][ (wlast'.op = "step" /\ ~running) =>
            UNCHANGED <<running, enabled, remaining, output_level, divider,
                        counter, mode, samples, index, wpanicked>> ]_vars

C19_Witness ==
    /\ wlast.op = "step" /\ ~running
    /\ mode = "Counter" /\ remaining > 0 /\ counter > 0

\* C20: only set_ram_sample changes the sample table; every other operation,
\* a set_divider that panics included, leaves each entry as it was, so that
\* ram_sample(i) is the value of the last set_ram_sample for entry i, 0 if
\* there was none.
C20_TableOnlyWritten ==
    /\ [](samples = wrote)
    /\ []((wlast.op = "ram_sample" /\ ~wpanicked) => wlast.ret = wrote[wlast.arg])
    /\ [][ wlast'.op # "set_ram_sample" => samples' = samples ]_vars

C20_Witness ==
    /\ wlast.op = "set_divider" /\ wpanicked
    /\ samples[0] = 12 /\ samples[31] = 12 /\ ticks = MaxTicks

\* C14: with running and enabled both true, sample() is samples[index] put
\* through the output level: 0 at Mute, the entry itself at Full, the entry
\* divided by 2 at Halved and by 4 at Quartered, rounded down (12 gives 3);
\* sample() changes no field.
C14_SampleTransform ==
    /\ []((wlast.op = "sample" /\ running /\ enabled) =>
            LET s == samples[index]
                r == wlast.ret
            IN  /\ (output_level = "Mute" => r = 0)
                /\ (output_level = "Full" => r = s)
                /\ (output_level = "Halved" => 2 * r <= s /\ s < 2 * r + 2)
                /\ (output_level = "Quartered" => 4 * r <= s /\ s < 4 * r + 4)
                /\ (output_level = "Quartered" /\ s = 12 => r = 3))
    /\ [][ wlast'.op = "sample" =>
              UNCHANGED <<running, enabled, remaining, output_level, divider,
                          counter, mode, samples, index, wpanicked, ticks>> ]_vars

C14_Witness ==
    /\ wlast.op = "sample" /\ running /\ enabled
    /\ index = 1 /\ samples[1] = 12 /\ output_level = "Quartered" /\ wlast.ret = 3

\* C15: for every index i in 0..31 and amplitude s, set_ram_sample(i, s)
\* stores s in entry i and leaves the other 31 entries as they were, and a
\* ram_sample(i) that follows it returns s.
C15_WriteThenRead ==
    /\ [][ (wlast'.op = "set_ram_sample" /\ wlast'.arg[1] < 32) =>
              /\ samples'[wlast'.arg[1]] = wlast'.arg[2]
              /\ \A j \in 0 .. 31 : j # wlast'.arg[1] => samples'[j] = samples[j]
              /\ ~wpanicked' ]_vars
    /\ [][ (/\ wlast.op = "set_ram_sample" /\ wlast'.op = "ram_sample"
            /\ wlast.arg[1] < 32 /\ wlast'.arg = wlast.arg[1]) =>
              (wlast'.ret = wlast.arg[2] /\ ~wpanicked') ]_vars

C15_Witness ==
    /\ wlast.op = "ram_sample" /\ wlast.arg = 31 /\ wlast.ret = 12
    /\ samples[31] = 12 /\ \A j \in 0 .. 30 : samples[j] = 0

\* C21: no 16-bit operation of step() wraps. In every reachable state the
\* divider is at most 0x7FF and the counter is in 0..0xFFF; a step that
\* reaches the period counter reloads it with 2 * (0x800 - divider), a value
\* in 2..0x1000, only when it is 0, and takes 1 from a value that is at
\* least 1, so the result is the unwrapped one.
C21_CounterInRange ==
    /\ [](divider \in 0 .. 2047 /\ counter \in 0 .. 4095)
    /\ [][ (wlast'.op = "step" /\ running /\ (mode = "Continuous" \/ remaining > 0)) =>
              LET reload == 2 * (2048 - divider)
                  before == IF counter = 0 THEN reload ELSE counter
              IN  /\ 2048 - divider >= 1
                  /\ reload >= 2 /\ reload <= 4096
                  /\ before >= 1
                  /\ counter' = before - 1 ]_vars

C21_Witness ==
    /\ wlast.op = "step" /\ running /\ divider = 2047
    /\ ticks = 3 /\ counter = 1 /\ index = 2

\* C22: running goes from true to false only in a step() taken in Counter
\* mode with remaining at 0, and from false to true only in start(), which
\* leaves remaining alone. A stopped channel stays stopped over step(); a
\* start() in Counter mode with the budget still at 0 is undone by the next
\* step(), which changes neither counter nor index; in Continuous mode step()
\* changes neither running nor remaining.
C22_StopAndStart ==
    /\ [][ (running /\ ~running') =>
              (wlast'.op = "step" /\ mode = "Counter" /\ remaining = 0) ]_vars
    /\ [][ (~running /\ running') => wlast'.op = "start" ]_vars
    /\ [][ wlast'.op = "start" => (running' /\ remaining' = remaining) ]_vars
    /\ [][ (wlast'.op = "step" /\ ~running) => ~running' ]_vars
    /\ [][ (/\ wlast.op = "start" /\ wlast'.op = "step"
            /\ mode = "Counter" /\ remaining = 0) =>
              (~running' /\ counter' = counter /\ index' = index /\ remaining' = 0) ]_vars
    /\ [][ (wlast'.op = "step" /\ mode = "Continuous") =>
              (running' = running /\ remaining' = remaining) ]_vars

C22_Witness ==
    /\ wlast.op = "start" /\ running /\ mode = "Counter" /\ remaining = 0
    /\ ticks = 16386 /\ divider = 0 /\ index = 4 /\ counter = 0

====
